---- MODULE Spec2Model ----
(***************************************************************************)
(* auth-kit server (src/src/server.ts): the token codec, the /auth/*       *)
(* router built by createAuthRouter and the withAuth middleware.           *)
(*                                                                         *)
(* One request is handled at a time: a request action reads the request,   *)
(* runs the whole handler (every hook call included) and records the       *)
(* request and its outcome in `last`; Deliver ends the request.  Nothing   *)
(* but the hook backend, the clock and the uuid source survives a request. *)
(* `issued` is not server state: it is the set of tokens the server has    *)
(* signed so far, i.e. what a caller can present with a good signature.    *)
(* `redeemed` is not server state either: it remembers which web auth      *)
(* codes have been redeemed.  `verifying` holds the /auth/verify requests  *)
(* that are in flight when requests overlap at the hook calls.             *)
(***************************************************************************)
EXTENDS Integers, Sequences, FiniteSets

VARIABLES now, steps, nextUuid, issued, emailToUser, codes, hooks, faulty, last,
          useTopLevelDomain, host, redeemed, verifying, client

\* what the server is constructed with and the host it is reached at
config == <<hooks, faulty, useTopLevelDomain, host>>

\* the state of the server side
server == <<now, steps, nextUuid, issued, emailToUser, codes, last, redeemed, verifying, config>>

vars == <<server, client>>

(***************************** bounds **************************************)
\* number of requests and clock advances explored from the initial state
MaxSteps == 2

\* number of /auth/verify requests that may overlap at the hook calls
NumProcs == 2

(***************************** constants ***********************************)
\* lifetimes in minutes: "15m", "7d", "1h", "5m"
SessionTtl == 15
RefreshTtl == 10080
TransientTtl == 60
WebAuthTtl == 5
\* expiresIn reported by /auth/request-code and /auth/web-code (seconds)
CodeExpiresIn == 600
WebCodeExpiresIn == 300

SESSION_TOKEN_COOKIE == "auth_session_token"
REFRESH_TOKEN_COOKIE == "auth_refresh_token"

Auds == {"SESSION", "REFRESH", "WEB_AUTH"}
\* request hosts as label sequences: a multi-label name, a bare name, an
\* IP literal
ApiHost == [labels |-> <<"api", "example", "com">>, ip |-> FALSE]
Hosts == {ApiHost,
          [labels |-> <<"localhost">>, ip |-> FALSE],
          [labels |-> <<"127", "0", "0", "1">>, ip |-> TRUE]}
\* no Domain attribute
NoDomain == <<>>
Emails == {"a@x.com", "b@x.com"}
NoEmail == ""
\* the clock advances by one of the token lifetimes
TickSteps == {WebAuthTtl, SessionTtl, TransientTtl, RefreshTtl}
\* an expiry override a caller of /auth/anonymous may send: twice the
\* default session lifetime
CustomExpiresIn == 2 * SessionTtl
\* codes generateVerificationCode can produce
GeneratedCodes == {"123456", "654321"}
NoCode == ""

RequiredHooks == {"getUserIdByEmail", "storeVerificationCode",
                  "verifyVerificationCode", "sendVerificationCode"}
OptionalHooks == {"onNewUser", "onAuthenticate", "onEmailVerified", "getUserEmail"}
\* hook objects the server is constructed with (the required hooks are always there)
HookConfigs == {OptionalHooks, OptionalHooks \ {"getUserEmail"}, {}}

(***************************** tokens **************************************)
\* A JWT as the codec sees it.  userId/sessionId 0 and email "" mean the
\* claim is absent.  kind "none" is a missing cookie/header/parameter (or an
\* empty one: both are falsy), kind "garbage" is a string that is not a JWT.
Tok(aud, userId, sessionId, email, exp) ==
    [kind |-> "jwt", sig |-> "ok", aud |-> aud, userId |-> userId,
     sessionId |-> sessionId, email |-> email, exp |-> exp]

NoToken ==
    [kind |-> "none", sig |-> "none", aud |-> "none", userId |-> 0,
     sessionId |-> 0, email |-> NoEmail, exp |-> 0]

Garbage ==
    [kind |-> "garbage", sig |-> "none", aud |-> "none", userId |-> 0,
     sessionId |-> 0, email |-> NoEmail, exp |-> 0]

\* a token an attacker signs with a key of its own: the claims of a session
\* token of subject 1 under the audience it wants, never expiring
Forged(aud) ==
    [Tok(aud, 1, 2, NoEmail, (MaxSteps + 2) * RefreshTtl) EXCEPT !.sig = "bad"]

\* what a request can carry in a cookie, a bearer header or the code
\* parameter: nothing, a string that is no JWT, a forgery for the audience
\* the place expects, or any token the server ever handed out
Presentable(aud) == {NoToken, Garbage, Forged(aud)} \cup issued

\* new SignJWT(payload).setAudience(aud).setExpirationTime(expiresIn).sign(secret)
\* at time `at`: the expiry is relative to the time of signing
SignJWT(aud, userId, sessionId, email, at, expiresIn) ==
    Tok(aud, userId, sessionId, email, at + expiresIn)

\* sessionId is the crypto.randomUUID() the function draws
createSessionToken(userId, sessionId, expiresIn, email) ==
    SignJWT("SESSION", userId, sessionId, email, now, expiresIn)

\* variant: the transient flag is ignored
createRefreshTokenLongLived(userId, expiresIn, isTransient) ==
    SignJWT("REFRESH", userId, 0, NoEmail, now, expiresIn)

createRefreshToken(userId, expiresIn, isTransient) ==
    SignJWT("REFRESH", userId, 0, NoEmail, now,
            IF isTransient THEN TransientTtl ELSE expiresIn)

\* variant: the code never carries the email
createWebAuthCodeWithoutEmail(userId, email) ==
    SignJWT("WEB_AUTH", userId, 0, NoEmail, now, WebAuthTtl)

\* new SignJWT({userId, email?}).setAudience("WEB_AUTH").setExpirationTime("5m")
createWebAuthCode(userId, email) ==
    SignJWT("WEB_AUTH", userId, 0, email, now, WebAuthTtl)

\* jose jwtVerify(token, key, {audience}): signature, expiry and, only when
\* an audience option is passed, the aud claim.  audience "" = no option.
jwtVerify(token, audience) ==
    /\ token.kind = "jwt"
    /\ token.sig = "ok"
    /\ token.exp > now
    /\ (audience # "" => token.aud = audience)

\* variant: a payload needs a userId only, whatever its audience
verifyTokenWithoutSessionId(token) ==
    jwtVerify(token, "") /\ token.userId # 0

\* variant: a refresh token is spent once a live session token of its
\* subject has been issued
verifyTokenUnlessSpent(token) ==
    IF ~jwtVerify(token, "") THEN FALSE
    ELSE IF token.aud = "REFRESH"
    THEN /\ token.userId # 0
         /\ ~\E s \in issued : s.aud = "SESSION" /\ s.userId = token.userId /\ s.exp > now
    ELSE token.userId # 0 /\ token.sessionId # 0

\* verifyToken returns the payload or null; TRUE here = a payload is returned
verifyToken(token) ==
    IF ~jwtVerify(token, "") THEN FALSE
    ELSE IF token.aud = "REFRESH" THEN token.userId # 0
    ELSE token.userId # 0 /\ token.sessionId # 0

\* getCookie(request, name): the cookie's value, undefined when there is none
getCookie(req, name) ==
    IF name = SESSION_TOKEN_COOKIE THEN req.session ELSE req.refresh


(***************************** requests ************************************)
NoAuth == [scheme |-> "absent", token |-> NoToken]
\* an Authorization header that does not start with "Bearer "
OtherAuth == [scheme |-> "other", token |-> NoToken]
Bearer(t) == [scheme |-> "bearer", token |-> t]

NoBody == [present |-> FALSE, sessionTokenExpiresIn |-> 0, refreshTokenExpiresIn |-> 0]
JsonBody(s, r) == [present |-> TRUE, sessionTokenExpiresIn |-> s, refreshTokenExpiresIn |-> r]

\* `fail` names the hook of the backend that throws if it is called during
\* this request ("none": every hook returns); `sendOk` is what
\* sendVerificationCode returns.  The URL is /a/b?x=1, followed by
\* &code=<code> when a code is sent: `query` lists the parameters in order
\* and "code" stands for the code parameter, whose value is `code`.
Request(route, method, session, refresh, auth, code, email, vcode, body, sendOk, fail) ==
    [route |-> route, method |-> method, path |-> "/a/b",
     query |-> IF code.kind = "none" THEN <<"x=1">> ELSE <<"x=1", "code">>,
     session |-> session, refresh |-> refresh, auth |-> auth, code |-> code,
     email |-> email, vcode |-> vcode, body |-> body, sendOk |-> sendOk,
     fail |-> fail]

NoRequest ==
    Request("", "", NoToken, NoToken, NoAuth, NoToken, NoEmail, NoCode, NoBody, TRUE, "none")

(***************************** responses ***********************************)
\* a response body: the JSON fields the routes send, or a text message
Body(kind, msg, userId, sessionToken, refreshToken, code, expiresIn) ==
    [kind |-> kind, success |-> FALSE, msg |-> msg, userId |-> userId,
     sessionToken |-> sessionToken, refreshToken |-> refreshToken, code |-> code,
     expiresIn |-> expiresIn]

\* the body with success: true
Success(body) == [body EXCEPT !.success = TRUE]

NoBodyOut == Body("none", "", 0, NoToken, NoToken, NoToken, 0)
TextBody(msg) == Body("text", msg, 0, NoToken, NoToken, NoToken, 0)
ErrorBody(msg) == Body("error", msg, 0, NoToken, NoToken, NoToken, 0)
HandlerBody == Body("handler", "", 0, NoToken, NoToken, NoToken, 0)

\* `${name}=${token}; HttpOnly; Secure; SameSite=Strict; Path=/[; Max-Age=0]`
SetCookie(name, token) ==
    [name |-> name, token |-> token, maxAge0 |-> FALSE, domain |-> NoDomain]
ClearCookie(name) ==
    [name |-> name, token |-> NoToken, maxAge0 |-> TRUE, domain |-> NoDomain]

\* no Location header
NoLocation == [path |-> "", query |-> <<>>]

\* a call of a hook: its arguments and what it returned (ret: the subject id
\* of getUserIdByEmail, 0 = null; 1/0 for a boolean; retEmail: the email of
\* getUserEmail, "" = undefined); a hook that throws returns nothing
HookCall(hook, userId, email, code, ret, retEmail) ==
    [hook |-> hook, userId |-> userId, email |-> email, code |-> code,
     ret |-> ret, retEmail |-> retEmail]

\* what one request did: status 0 = the promise rejected (no Response);
\* calls = the hook calls in order; handler = the calls of the wrapped
\* handler; minted = the tokens signed, in order.
Outcome(op, req, status, body, cookies, calls, handler, minted, location) ==
    [op |-> op, req |-> req, status |-> status, body |-> body, cookies |-> cookies,
     calls |-> calls, handler |-> handler, minted |-> minted, location |-> location]

Idle == Outcome("idle", NoRequest, 0, NoBodyOut, <<>>, <<>>, <<>>, <<>>, NoLocation)

\* the result of a handler: the outcome, the uuids it drew, the backend after it
Result(out, uuids, e2u, cds) ==
    [out |-> out, uuids |-> uuids, emailToUser |-> e2u, codes |-> cds]

(***************************** hook backend ********************************)
Has(hook) == hook \in RequiredHooks \cup hooks

\* getUserIdByEmail: KV.get(`email:${email}`), 0 = null
getUserIdByEmail(email) == emailToUser[email]

\* verifyVerificationCode: storedCode === code
verifyVerificationCode(email, code) == codes[email] # NoCode /\ codes[email] = code

\* getUserEmail: the email recorded for the subject, "" = undefined
getUserEmail(userId) ==
    IF \E e \in Emails : emailToUser[e] = userId
    THEN CHOOSE e \in Emails : emailToUser[e] = userId
    ELSE NoEmail

(***************************** createAuthRouter ****************************)
\* the catch block of the router: any throw inside a route becomes a 500
Caught(op, req, calls, minted, uuids, cds) ==
    Result(Outcome(op, req, 500, ErrorBody("Internal server error"), <<>>, calls,
                   <<>>, minted, NoLocation),
           uuids, emailToUser, cds)

\* variant: only the session cookie is set
SessionCookieOnly(sessionToken, refreshToken) ==
    <<SetCookie(SESSION_TOKEN_COOKIE, sessionToken)>>

\* the two Set-Cookie headers the routes and the middleware append
AuthCookies(sessionToken, refreshToken) ==
    <<SetCookie(SESSION_TOKEN_COOKIE, sessionToken),
      SetCookie(REFRESH_TOKEN_COOKIE, refreshToken)>>

\* path outside /auth/<route>, a method other than POST, an unknown route
routeReject(req) ==
    LET status == IF req.route = "/" THEN 404
                  ELSE IF req.method # "POST" THEN 405
                  ELSE 404
        body == IF req.route = "/" THEN ErrorBody("Not Found")
                ELSE IF req.method # "POST" THEN ErrorBody("Method not allowed")
                ELSE TextBody("Not found")
    IN Result(Outcome("reject", req, status, body, <<>>, <<>>, <<>>, <<>>, NoLocation),
              0, emailToUser, codes)

\* case "anonymous"
routeAnonymous(req) ==
    LET userId == nextUuid
        calls == IF Has("onNewUser")
                 THEN <<HookCall("onNewUser", userId, NoEmail, NoCode, 0, NoEmail)>> ELSE <<>>
        sessionToken ==
            createSessionToken(userId, nextUuid + 1,
                               IF req.body.sessionTokenExpiresIn = 0 THEN SessionTtl
                               ELSE req.body.sessionTokenExpiresIn, NoEmail)
        cookieRefreshToken ==
            createRefreshToken(userId,
                               IF req.body.refreshTokenExpiresIn = 0 THEN RefreshTtl
                               ELSE req.body.refreshTokenExpiresIn, FALSE)
        transientRefreshToken == createRefreshToken(userId, RefreshTtl, TRUE)
        minted == <<sessionToken, cookieRefreshToken, transientRefreshToken>>
    IN IF ~req.body.present
       THEN \* request.json() throws on a request without a JSON body
            Caught("anonymous", req, <<>>, <<>>, 0, codes)
       ELSE IF Has("onNewUser") /\ req.fail = "onNewUser"
       THEN Caught("anonymous", req, calls, <<>>, 1, codes)
       ELSE Result(Outcome("anonymous", req, 200,
                           Body("json", "", userId, sessionToken, transientRefreshToken,
                                NoToken, 0),
                           AuthCookies(sessionToken, cookieRefreshToken),
                           calls, <<>>, minted, NoLocation),
                   2, emailToUser, codes)

\* variant: every verification is treated as a first one
verifyAlwaysNewUser(found) == TRUE

\* const isNewUser = !userId
verifyIsNewUser(found) == found = 0

\* variant: a code the backend rejects is let through
verifyRejectsNothing(isValid) == FALSE

\* if (!isValid) return new Response("Invalid or expired code", { status: 400 })
verifyRejects(isValid) == ~isValid

\* variant: a caller with a live session keeps its subject id (upgrade in place)
verifyNewUserIdFromSession(req) ==
    IF verifyToken(req.session) /\ req.session.aud = "SESSION"
    THEN req.session.userId ELSE nextUuid

\* "generate a new user ID for new users": crypto.randomUUID(), whatever
\* the request carries
verifyNewUserId(req) == nextUuid

\* variant: a refused code for an email without a subject is answered 404
invalidCodeOrUnknownEmail(req, calls) ==
    Result(Outcome("verify", req, IF getUserIdByEmail(req.email) = 0 THEN 404 ELSE 400,
                   TextBody("Invalid or expired code"), <<>>, calls, <<>>, <<>>, NoLocation),
           0, emailToUser, codes)

\* the answer to a code the backend rejects: 400 with a fixed text, whatever
\* getUserIdByEmail returned
invalidCode(req, calls) ==
    Result(Outcome("verify", req, 400, TextBody("Invalid or expired code"),
                   <<>>, calls, <<>>, <<>>, NoLocation),
           0, emailToUser, codes)

\* case "verify"
routeVerify(req) ==
    LET email == req.email
        code == req.vcode
        found == getUserIdByEmail(email)
        isNewUser == verifyIsNewUser(found)
        isValid == verifyVerificationCode(email, code)
        userId == IF isNewUser THEN verifyNewUserId(req) ELSE found
        drawn == IF isNewUser THEN 1 ELSE 0
        c1 == <<HookCall("getUserIdByEmail", 0, email, NoCode,
                         IF req.fail = "getUserIdByEmail" THEN 0 ELSE found, NoEmail)>>
        c2 == Append(c1, HookCall("verifyVerificationCode", 0, email, code,
                                  IF isValid /\ req.fail # "verifyVerificationCode"
                                  THEN 1 ELSE 0, NoEmail))
        c3 == IF isNewUser /\ Has("onNewUser")
              THEN Append(c2, HookCall("onNewUser", userId, NoEmail, NoCode, 0, NoEmail)) ELSE c2
        c4 == IF Has("onAuthenticate")
              THEN Append(c3, HookCall("onAuthenticate", userId, email, NoCode, 0, NoEmail)) ELSE c3
        c5 == IF Has("onEmailVerified")
              THEN Append(c4, HookCall("onEmailVerified", userId, email, NoCode, 0, NoEmail)) ELSE c4
        \* onEmailVerified: KV.put(`email:${email}`, userId)
        recorded == IF Has("onEmailVerified")
                    THEN [emailToUser EXCEPT ![email] = userId] ELSE emailToUser
        sessionToken == createSessionToken(userId, nextUuid + drawn, SessionTtl, email)
        cookieRefreshToken == createRefreshToken(userId, RefreshTtl, FALSE)
        transientRefreshToken == createRefreshToken(userId, RefreshTtl, TRUE)
        minted == <<sessionToken, cookieRefreshToken, transientRefreshToken>>
    IN IF req.fail = "getUserIdByEmail" THEN Caught("verify", req, c1, <<>>, 0, codes)
       ELSE IF req.fail = "verifyVerificationCode"
       THEN Caught("verify", req, c2, <<>>, 0, codes)
       ELSE IF verifyRejects(isValid)
       THEN invalidCode(req, c2)
       ELSE IF isNewUser /\ Has("onNewUser") /\ req.fail = "onNewUser"
       THEN Caught("verify", req, c3, <<>>, drawn, codes)
       ELSE IF Has("onAuthenticate") /\ req.fail = "onAuthenticate"
       THEN Caught("verify", req, c4, <<>>, drawn, codes)
       ELSE IF Has("onEmailVerified") /\ req.fail = "onEmailVerified"
       THEN Caught("verify", req, c5, <<>>, drawn, codes)
       ELSE Result(Outcome("verify", req, 200,
                           Success(Body("json", "", userId, sessionToken,
                                        transientRefreshToken, NoToken, 0)),
                           AuthCookies(sessionToken, cookieRefreshToken),
                           c5, <<>>, minted, NoLocation),
                   drawn + 1, recorded, codes)

\* case "request-code"; `code` is what generateVerificationCode returned
\* variant: the return value of sendVerificationCode is not looked at
sendNeverFailed(sent) == FALSE

\* if (!sent) return 500 "Failed to send verification code"
sendFailed(sent) == ~sent

routeRequestCode(req, code) ==
    LET email == req.email
        c1 == <<HookCall("storeVerificationCode", 0, email, code, 0, NoEmail)>>
        c2 == Append(c1, HookCall("sendVerificationCode", 0, email, code,
                                  IF req.sendOk /\ req.fail # "sendVerificationCode"
                                  THEN 1 ELSE 0, NoEmail))
        \* storeVerificationCode: KV.put(`code:${email}`, code)
        stored == [codes EXCEPT ![email] = code]
    IN IF req.fail = "storeVerificationCode"
       THEN Caught("request-code", req, c1, <<>>, 0, codes)
       ELSE IF req.fail = "sendVerificationCode"
       THEN Caught("request-code", req, c2, <<>>, 0, stored)
       ELSE IF sendFailed(req.sendOk)
       THEN Result(Outcome("request-code", req, 500,
                           TextBody("Failed to send verification code"),
                           <<>>, c2, <<>>, <<>>, NoLocation),
                   0, emailToUser, stored)
       ELSE Result(Outcome("request-code", req, 200,
                           Success(Body("json", "Code sent to email", 0, NoToken, NoToken,
                                        NoToken, CodeExpiresIn)),
                           <<>>, c2, <<>>, <<>>, NoLocation),
                   0, emailToUser, stored)

\* case "refresh"
routeRefresh(req) ==
    LET authHeader == req.auth
        cookieRefreshToken == getCookie(req, REFRESH_TOKEN_COOKIE)
        refreshToken == IF authHeader.scheme = "bearer" THEN authHeader.token
                        ELSE cookieRefreshToken
        payload == refreshToken
        email == IF Has("getUserEmail") THEN getUserEmail(payload.userId) ELSE NoEmail
        calls == IF Has("getUserEmail")
                 THEN <<HookCall("getUserEmail", payload.userId, NoEmail, NoCode, 0,
                                 IF req.fail = "getUserEmail" THEN NoEmail ELSE email)>>
                 ELSE <<>>
        newSessionToken == createSessionToken(payload.userId, nextUuid, SessionTtl, email)
        newCookieRefreshToken == createRefreshToken(payload.userId, RefreshTtl, FALSE)
        newTransientRefreshToken == createRefreshToken(payload.userId, RefreshTtl, TRUE)
        minted == <<newSessionToken, newCookieRefreshToken, newTransientRefreshToken>>
    IN IF refreshToken.kind = "none"
       THEN Result(Outcome("refresh", req, 401, ErrorBody("No refresh token provided"),
                           <<>>, <<>>, <<>>, <<>>, NoLocation),
                   0, emailToUser, codes)
       ELSE IF ~verifyToken(refreshToken)
       THEN Result(Outcome("refresh", req, 401, ErrorBody("Invalid refresh token"),
                           <<>>, <<>>, <<>>, <<>>, NoLocation),
                   0, emailToUser, codes)
       ELSE IF Has("getUserEmail") /\ req.fail = "getUserEmail"
       THEN Caught("refresh", req, calls, <<>>, 0, codes)
       ELSE Result(Outcome("refresh", req, 200,
                           Success(Body("json", "", 0, newSessionToken,
                                        newTransientRefreshToken, NoToken, 0)),
                           IF cookieRefreshToken.kind # "none"
                           THEN AuthCookies(newSessionToken, newCookieRefreshToken)
                           ELSE <<>>,
                           calls, <<>>, minted, NoLocation),
                   1, emailToUser, codes)

\* variant: only a caller with a valid session cookie is logged out
routeLogoutIfSession(req) ==
    IF verifyToken(req.session)
    THEN Result(Outcome("logout", req, 200,
                        Success(Body("json", "", 0, NoToken, NoToken, NoToken, 0)),
                        <<ClearCookie(SESSION_TOKEN_COOKIE), ClearCookie(REFRESH_TOKEN_COOKIE)>>,
                        <<>>, <<>>, <<>>, NoLocation),
                0, emailToUser, codes)
    ELSE Result(Outcome("logout", req, 401, TextBody("Unauthorized"),
                        <<>>, <<>>, <<>>, <<>>, NoLocation),
                0, emailToUser, codes)

\* case "logout": {success: true} and both cookies emptied with Max-Age=0
routeLogout(req) ==
    Result(Outcome("logout", req, 200,
                   Success(Body("json", "", 0, NoToken, NoToken, NoToken, 0)),
                   <<ClearCookie(SESSION_TOKEN_COOKIE), ClearCookie(REFRESH_TOKEN_COOKIE)>>,
                   <<>>, <<>>, <<>>, NoLocation),
           0, emailToUser, codes)

\* case "web-code"
routeWebCode(req) ==
    LET authHeader == req.auth
        sessionToken == authHeader.token
        payload == sessionToken
        code == createWebAuthCode(payload.userId, payload.email)
    IN IF authHeader.scheme # "bearer"
       THEN Result(Outcome("web-code", req, 401, TextBody("Unauthorized"),
                           <<>>, <<>>, <<>>, <<>>, NoLocation),
                   0, emailToUser, codes)
       ELSE IF ~verifyToken(sessionToken)
       THEN Result(Outcome("web-code", req, 401, TextBody("Invalid session token"),
                           <<>>, <<>>, <<>>, <<>>, NoLocation),
                   0, emailToUser, codes)
       ELSE Result(Outcome("web-code", req, 200,
                           Body("json", "", 0, NoToken, NoToken, code, WebCodeExpiresIn),
                           <<>>, <<>>, <<>>, <<code>>, NoLocation),
                   0, emailToUser, codes)

\* createAuthRouter's handler: path and method checks, then the route
createAuthRouter(req, code) ==
    IF req.route = "/" \/ req.method # "POST" THEN routeReject(req)
    ELSE IF req.route = "anonymous" THEN routeAnonymous(req)
    ELSE IF req.route = "verify" THEN routeVerify(req)
    ELSE IF req.route = "request-code" THEN routeRequestCode(req, code)
    ELSE IF req.route = "refresh" THEN routeRefresh(req)
    ELSE IF req.route = "logout" THEN routeLogout(req)
    ELSE IF req.route = "web-code" THEN routeWebCode(req)
    ELSE routeReject(req)

(***************************** withAuth ************************************)
HandlerCall(userId, sessionId, sessionToken) ==
    [userId |-> userId, sessionId |-> sessionId, sessionToken |-> sessionToken]

\* the tail of withAuth: call the handler, append the cookies of a new pair
finish(op, req, calls, userId, sessionId, currentSessionToken, newSessionToken, newRefreshToken, minted, uuids) ==
    Result(Outcome(op, req, 200, HandlerBody,
                   (IF newSessionToken.kind # "none"
                    THEN <<SetCookie(SESSION_TOKEN_COOKIE, newSessionToken)>> ELSE <<>>)
                   \o (IF newRefreshToken.kind # "none"
                       THEN <<SetCookie(REFRESH_TOKEN_COOKIE, newRefreshToken)>> ELSE <<>>),
                   calls,
                   <<HandlerCall(userId, sessionId, currentSessionToken)>>,
                   minted, NoLocation),
           uuids, emailToUser, codes)

\* variant: a throwing hook is swallowed and the handler runs all the same
swallowed(op, req, calls, minted, uuids) ==
    Result(Outcome(op, req, 200, HandlerBody, <<>>, calls,
                   <<HandlerCall(nextUuid, nextUuid, NoToken)>>, minted, NoLocation),
           uuids, emailToUser, codes)

\* a throw inside withAuth is not caught: the returned promise rejects
rejected(op, req, calls, minted, uuids) ==
    Result(Outcome(op, req, 0, NoBodyOut, <<>>, calls, <<>>, minted, NoLocation),
           uuids, emailToUser, codes)

\* variant: the code is verified without the audience option
codeAcceptedAnyAudience(req) ==
    /\ req.code.kind # "none"
    /\ jwtVerify(req.code, "")
    /\ req.code.userId # 0

\* the web auth code check: TRUE when the code parameter is redeemed
codeAccepted(req) ==
    /\ req.code.kind # "none"
    /\ jwtVerify(req.code, "WEB_AUTH")
    /\ req.code.userId # 0

\* redirectUrl.searchParams.delete(name): every parameter of that name goes
searchParamsDelete(query, name) == SelectSeq(query, LAMBDA q : q # name)

\* variant: the redirect goes to the path alone
redirectUrlWithoutQuery(req) == [path |-> req.path, query |-> <<>>]

\* new URL(request.url) with the code parameter deleted
redirectUrl(req) ==
    [path |-> req.path, query |-> searchParamsDelete(req.query, "code")]

\* a redeemed code: new pair for the code's subject, 302 without the code
redeem(req) ==
    LET payload == req.code
        sessionId == nextUuid
        newSessionToken ==
            createSessionToken(payload.userId, nextUuid + 1, SessionTtl, payload.email)
        newRefreshToken == createRefreshToken(payload.userId, RefreshTtl, FALSE)
    IN Result(Outcome("redeem", req, 302, NoBodyOut,
                      AuthCookies(newSessionToken, newRefreshToken),
                      <<>>, <<>>, <<newSessionToken, newRefreshToken>>,
                      redirectUrl(req)),
              2, emailToUser, codes)

\* variant: the new subject is never announced to onNewUser
bootstrapSilently(req) ==
    LET userId == nextUuid
        newSessionToken == createSessionToken(userId, nextUuid + 1, SessionTtl, NoEmail)
        newRefreshToken == createRefreshToken(userId, RefreshTtl, FALSE)
    IN finish("bootstrap", req, <<>>, userId, userId, newSessionToken,
              newSessionToken, newRefreshToken, <<newSessionToken, newRefreshToken>>, 2)

\* variant: a request without usable credentials is refused
bootstrapRefusing(req) == rejected("bootstrap", req, <<>>, <<>>, 0)

\* "create new anonymous user" (the three identical branches)
bootstrap(req) ==
    LET userId == nextUuid
        sessionId == userId
        newSessionToken == createSessionToken(userId, nextUuid + 1, SessionTtl, NoEmail)
        newRefreshToken == createRefreshToken(userId, RefreshTtl, FALSE)
        minted == <<newSessionToken, newRefreshToken>>
        calls == IF Has("onNewUser")
                 THEN <<HookCall("onNewUser", userId, NoEmail, NoCode, 0, NoEmail)>> ELSE <<>>
    IN IF Has("onNewUser") /\ req.fail = "onNewUser"
       THEN rejected("bootstrap", req, calls, minted, 2)
       ELSE finish("bootstrap", req, calls, userId, sessionId, newSessionToken,
                   newSessionToken, newRefreshToken, minted, 2)

\* variant: a valid refresh token starts a new anonymous subject
rotateAsStranger(req, refreshPayload) == bootstrap(req)

\* "valid refresh token, create new session"
rotate(req, refreshPayload) ==
    LET userId == refreshPayload.userId
        sessionId == nextUuid
        email == IF Has("getUserEmail") THEN getUserEmail(userId) ELSE NoEmail
        calls == IF Has("getUserEmail")
                 THEN <<HookCall("getUserEmail", userId, NoEmail, NoCode, 0,
                                 IF req.fail = "getUserEmail" THEN NoEmail ELSE email)>>
                 ELSE <<>>
        newSessionToken == createSessionToken(userId, nextUuid + 1, SessionTtl, email)
        newRefreshToken == createRefreshToken(userId, RefreshTtl, FALSE)
        minted == <<newSessionToken, newRefreshToken>>
    IN IF Has("getUserEmail") /\ req.fail = "getUserEmail"
       THEN rejected("rotate", req, calls, <<>>, 1)
       ELSE finish("rotate", req, calls, userId, sessionId, newSessionToken,
                   newSessionToken, newRefreshToken, minted, 2)

\* variant: a valid session token is renewed on every request
passThroughRenewing(req, payload) == rotate(req, payload)

\* "valid session token"
passThrough(req, payload) ==
    LET userId == payload.userId
        sessionId == IF payload.sessionId # 0 THEN payload.sessionId ELSE nextUuid
    IN finish("session", req, <<>>, userId, sessionId, req.session,
              NoToken, NoToken, <<>>, IF payload.sessionId # 0 THEN 0 ELSE 1)

\* variant: the session check trusts verifyToken alone
sessionAcceptedAnyAudience(sessionToken) == verifyToken(sessionToken)

\* the session check of the cookie resolution
sessionAccepted(sessionToken) ==
    verifyToken(sessionToken) /\ sessionToken.aud = "SESSION"

\* the refresh check of the cookie resolution
refreshAccepted(refreshToken) ==
    verifyToken(refreshToken) /\ refreshToken.aud = "REFRESH"

\* the cookie resolution of withAuth
resolve(req) ==
    LET sessionToken == getCookie(req, SESSION_TOKEN_COOKIE)
        refreshToken == getCookie(req, REFRESH_TOKEN_COOKIE)
    IN IF sessionToken.kind # "none"
       THEN IF sessionAccepted(sessionToken) THEN passThrough(req, sessionToken)
            ELSE IF refreshToken.kind # "none"
            THEN IF refreshAccepted(refreshToken) THEN rotate(req, refreshToken)
                 ELSE bootstrap(req)
            ELSE bootstrap(req)
       ELSE bootstrap(req)

\* variant: a valid session cookie is served before the code parameter is looked at
withAuthCookiesFirst(req, code) ==
    IF req.route # "" THEN createAuthRouter(req, code)
    ELSE IF sessionAccepted(req.session) THEN resolve(req)
    ELSE IF codeAccepted(req) THEN redeem(req)
    ELSE resolve(req)

\* the middleware: auth routes, then the code parameter, then the cookies
withAuth(req, code) ==
    IF req.route # "" THEN createAuthRouter(req, code)
    ELSE IF codeAccepted(req) THEN redeem(req)
    ELSE resolve(req)

(***************************** overlapping /auth/verify ********************)
\* Hook calls are the suspension points of a request: between two of them
\* another request may run.  A process is one /auth/verify request taken
\* from hook call to hook call; `after` is the set of requests that had
\* been answered when this one arrived, `announced` tells whether onNewUser
\* was called, status 0 = not answered yet.
Procs == 1..NumProcs

NoVerify ==
    [pc |-> "idle", email |-> NoEmail, vcode |-> NoCode, found |-> 0, userId |-> 0,
     announced |-> FALSE, after |-> {}, status |-> 0]

\* the request a process is handling
VerifyRequest(p) ==
    Request("verify", "POST", NoToken, NoToken, NoAuth, NoToken, verifying[p].email,
            verifying[p].vcode, JsonBody(0, 0), TRUE, "none")

\* const { email, code } = await request.json()
VerifyArrive(p) ==
    /\ verifying[p].pc = "idle"
    /\ \E email \in Emails, vcode \in GeneratedCodes :
           verifying' = [verifying EXCEPT ![p] =
               [NoVerify EXCEPT !.pc = "lookup", !.email = email, !.vcode = vcode,
                                !.after = {q \in Procs : verifying[q].pc = "done"}]]
    /\ UNCHANGED <<now, steps, nextUuid, issued, emailToUser, codes, last, redeemed, config, client>>

\* let userId = await hooks.getUserIdByEmail(...)
VerifyLookup(p) ==
    /\ verifying[p].pc = "lookup"
    /\ verifying' = [verifying EXCEPT ![p].pc = "check",
                                      ![p].found = getUserIdByEmail(verifying[p].email)]
    /\ UNCHANGED <<now, steps, nextUuid, issued, emailToUser, codes, last, redeemed, config, client>>

\* const isValid = await hooks.verifyVerificationCode(...); 400 if not
VerifyCheck(p) ==
    /\ verifying[p].pc = "check"
    /\ LET isValid == verifyVerificationCode(verifying[p].email, verifying[p].vcode)
       IN verifying' =
            IF verifyRejects(isValid)
            THEN [verifying EXCEPT ![p].pc = "done", ![p].status = 400]
            ELSE IF verifyIsNewUser(verifying[p].found)
            THEN [verifying EXCEPT ![p].pc = "newUser"]
            ELSE [verifying EXCEPT ![p].pc = "authenticate",
                                   ![p].userId = verifying[p].found]
    /\ UNCHANGED <<now, steps, nextUuid, issued, emailToUser, codes, last, redeemed, config, client>>

\* userId = crypto.randomUUID(); await hooks.onNewUser(...)
VerifyNewUser(p) ==
    /\ verifying[p].pc = "newUser"
    /\ verifying' = [verifying EXCEPT ![p].pc = "authenticate",
                                      ![p].userId = verifyNewUserId(VerifyRequest(p)),
                                      ![p].announced = Has("onNewUser")]
    /\ nextUuid' = nextUuid + 1
    /\ UNCHANGED <<now, steps, issued, emailToUser, codes, last, redeemed, config, client>>

\* await hooks.onAuthenticate(...)
VerifyAuthenticate(p) ==
    /\ verifying[p].pc = "authenticate"
    /\ verifying' = [verifying EXCEPT ![p].pc = "emailVerified"]
    /\ UNCHANGED <<now, steps, nextUuid, issued, emailToUser, codes, last, redeemed, config, client>>

\* await hooks.onEmailVerified(...): KV.put(`email:${email}`, userId)
VerifyEmailVerified(p) ==
    /\ verifying[p].pc = "emailVerified"
    /\ verifying' = [verifying EXCEPT ![p].pc = "respond"]
    /\ emailToUser' = IF Has("onEmailVerified")
                      THEN [emailToUser EXCEPT ![verifying[p].email] = verifying[p].userId]
                      ELSE emailToUser
    /\ UNCHANGED <<now, steps, nextUuid, issued, codes, last, redeemed, config, client>>

\* the tokens are signed and the response goes out
VerifyRespond(p) ==
    /\ verifying[p].pc = "respond"
    /\ verifying' = [verifying EXCEPT ![p].pc = "done", ![p].status = 200]
    /\ issued' = issued \cup
           {createSessionToken(verifying[p].userId, nextUuid, SessionTtl, verifying[p].email),
            createRefreshToken(verifying[p].userId, RefreshTtl, FALSE),
            createRefreshToken(verifying[p].userId, RefreshTtl, TRUE)}
    /\ nextUuid' = nextUuid + 1
    /\ UNCHANGED <<now, steps, emailToUser, codes, last, redeemed, config, client>>

(***************************** client.ts ***********************************)
\* Values of the client: a userId is a subject id, '' or undefined; a token
\* is a token string, '', null or undefined (NoToken: the field is absent).
UndefinedId == 0
EmptyId == 0 - 1
EmptyToken == [NoToken EXCEPT !.kind = "empty"]
NullToken == [NoToken EXCEPT !.kind = "null"]
NoError == ""

\* !value
FalsyId(userId) == userId \in {UndefinedId, EmptyId}
FalsyToken(token) == token.kind \in {"none", "empty", "null"}

\* decodeJWT(token)?.email || null: the payload is read without verification
decodeJWTEmail(token) == IF token.kind = "jwt" THEN token.email ELSE NoEmail

\* state = { ...state, ...newState }
Merge(state, newState) ==
    [f \in DOMAIN state |-> IF f \in DOMAIN newState THEN newState[f] ELSE state[f]]

\* no client has been created
NoClient == [proc |-> <<>>]

\* what createAuthClient is called with
ClientConfig(userId, sessionToken, refreshToken) ==
    [userId |-> userId, sessionToken |-> sessionToken, refreshToken |-> refreshToken]

\* a request of the client that has not been started, or has ended:
\* result is "resolved" or "rejected" once the returned promise has settled
NoCall ==
    [pc |-> "idle", op |-> "", path |-> "", result |-> "none", message |-> NoError,
     response |-> [ok |-> FALSE, network |-> FALSE, text |-> "", body |-> NoBodyOut],
     value |-> NoBodyOut]

\* createAuthClient(config): config.refreshToken || null; the email is read
\* from the initial session token.  Of the step that led to the state, sets
\* counts the calls of setState (each notifies every subscriber), sent the
\* calls of fetch, onError the calls of config.onError; calls counts the
\* operations started so far.
createAuthClient(clientConfig) ==
    [state |-> [isLoading |-> FALSE, userId |-> clientConfig.userId,
                sessionToken |-> clientConfig.sessionToken,
                email |-> decodeJWTEmail(clientConfig.sessionToken), error |-> NoError],
     refreshToken |-> IF FalsyToken(clientConfig.refreshToken) THEN NullToken
                      ELSE clientConfig.refreshToken,
     sets |-> 0, sent |-> 0, onError |-> 0, calls |-> 0,
     proc |-> [p \in Procs |-> NoCall]]

\* a new step begins: nothing has been done in it yet
begin(c) == [c EXCEPT !.sets = 0, !.sent = 0, !.onError = 0]

\* setState(newState): merge, then subscribers.forEach(cb => cb(state))
setState(c, newState) ==
    [c EXCEPT !.state = Merge(c.state, newState), !.sets = @ + 1]

setLoading(c, isLoading) == setState(c, [isLoading |-> isLoading])

\* variant: the message is not recorded
setErrorWithoutMessage(c, error) == setState(c, [isLoading |-> FALSE])

setError(c, error) == setState(c, [isLoading |-> FALSE, error |-> error])

updateStateFromToken(c, sessionToken) ==
    setState(c, [sessionToken |-> sessionToken, email |-> decodeJWTEmail(sessionToken)])

setAuthenticated(c, userId, sessionToken, refreshToken) ==
    updateStateFromToken(
        setState([c EXCEPT !.refreshToken = refreshToken],
                 [isLoading |-> FALSE, userId |-> userId, sessionToken |-> sessionToken]),
        sessionToken)

\* what fetch gives post: a response (ok: status 2xx; text: the body as
\* text; body: the body as JSON) or a rejection (network)
HttpOk(body) == [ok |-> TRUE, network |-> FALSE, text |-> "", body |-> body]
HttpError(text) == [ok |-> FALSE, network |-> FALSE, text |-> text, body |-> NoBodyOut]
NetworkError == [ok |-> FALSE, network |-> TRUE, text |-> "Failed to fetch", body |-> NoBodyOut]

\* the tokens of a subject as /auth/verify and /auth/refresh return them
VerifiedSession(userId, email) == SignJWT("SESSION", userId, userId + 1, email, 0, SessionTtl)
TransientRefresh(userId) == SignJWT("REFRESH", userId, 0, NoEmail, 0, TransientTtl)

\* the responses of this repository's server to the paths the client posts to
Responses(path) ==
    {NetworkError} \cup
    CASE path = "request-code" ->
           {HttpOk(Success(Body("json", "Code sent to email", 0, NoToken, NoToken, NoToken, CodeExpiresIn))),
            HttpError("Failed to send verification code")}
      [] path = "verify" ->
           {HttpOk(Success(Body("json", "", 3, VerifiedSession(3, "a@x.com"), TransientRefresh(3), NoToken, 0))),
            HttpError("Invalid or expired code")}
      [] path = "logout" ->
           {HttpOk(Success(Body("json", "", 0, NoToken, NoToken, NoToken, 0))),
            HttpError("{\"error\":\"Internal server error\"}")}
      [] path = "refresh" ->
           {HttpOk(Success(Body("json", "", 0, VerifiedSession(1, NoEmail), TransientRefresh(1), NoToken, 0))),
            HttpError("{\"error\":\"Invalid refresh token\"}")}
      [] OTHER ->
           {HttpOk(Body("json", "", 0, NoToken, NoToken, createWebAuthCode(1, NoEmail), WebCodeExpiresIn)),
            HttpError("Invalid session token")}

\* clients as the middleware's page hands them over (web: no refresh token)
\* and as a mobile app restores them; 'test-session' is no JWT
ClientConfigs ==
    {ClientConfig(1, Garbage, NoToken),
     ClientConfig(1, VerifiedSession(1, NoEmail), TransientRefresh(1)),
     ClientConfig(3, VerifiedSession(3, "a@x.com"), TransientRefresh(3))}

\* the sync start of post: the request is sent
fetch(c, p, op, path) ==
    [c EXCEPT !.sent = @ + 1, !.calls = @ + 1,
              !.proc[p] = [NoCall EXCEPT !.pc = "fetching", !.op = op, !.path = path]]

\* the operation ends before any request: it returns or throws
ended(c, p, op, result, message) ==
    [c EXCEPT !.calls = @ + 1,
              !.proc[p] = [NoCall EXCEPT !.op = op, !.result = result, !.message = message]]

\* variant: logout posts whatever the state is
logoutAlways(c, p) == fetch(setLoading(c, TRUE), p, "logout", "logout")

\* the start of each operation, up to the await of fetch
requestCode(c, p) == fetch(setLoading(c, TRUE), p, "requestCode", "request-code")

verifyEmail(c, p) ==
    IF FalsyId(c.state.userId) THEN ended(c, p, "verifyEmail", "rejected", "No user ID available")
    ELSE fetch(setLoading(c, TRUE), p, "verifyEmail", "verify")

logout(c, p) ==
    IF FalsyId(c.state.userId) THEN ended(c, p, "logout", "resolved", NoError)
    ELSE fetch(setLoading(c, TRUE), p, "logout", "logout")

\* refresh() of the client
clientRefresh(c, p) ==
    IF FalsyToken(c.refreshToken) THEN ended(c, p, "refresh", "rejected", "No refresh token available")
    ELSE fetch(setLoading(c, TRUE), p, "refresh", "refresh")

getWebAuthCode(c, p) == fetch(setLoading(c, TRUE), p, "getWebAuthCode", "web-code")

\* post after the await of fetch: a body on 2xx; otherwise the error goes
\* to config.onError and is thrown again
post(c, p, response) ==
    [c EXCEPT !.onError = IF response.ok THEN @ ELSE @ + 1,
              !.proc[p] = [@ EXCEPT !.pc = "settled", !.response = response,
                                    !.value = response.body,
                                    !.message = IF response.ok THEN NoError ELSE response.text]]

\* the try block of each operation after the await of post
succeeded(c, op, value) ==
    IF op \in {"requestCode", "verifyEmail", "refresh"}
    THEN setAuthenticated(c, value.userId, value.sessionToken, value.refreshToken)
    ELSE IF op = "logout"
    THEN setState([c EXCEPT !.refreshToken = NullToken],
                  [c.state EXCEPT !.userId = EmptyId, !.sessionToken = EmptyToken,
                                  !.email = NoEmail])
    ELSE c

\* try / catch / finally of an operation once post has settled
complete(c, p) ==
    LET call == c.proc[p]
        tried == IF call.response.ok THEN succeeded(c, call.op, call.value)
                 ELSE setError(c, call.message)
        done == setLoading(tried, FALSE)
    IN [done EXCEPT !.proc[p] = [NoCall EXCEPT !.op = call.op, !.message = call.message,
                                    !.result = IF call.response.ok THEN "resolved"
                                               ELSE "rejected"]]

(***************************** state machine *******************************)
\* the tokens a response hands to the caller
Delivered(out) ==
    ({out.cookies[i].token : i \in 1..Len(out.cookies)}
        \cup {out.body.sessionToken, out.body.refreshToken, out.body.code})
    \ {NoToken}

\* The server keeps no state of its own: what it starts with is what earlier
\* instances holding the same secret left behind.  Subject 1 is anonymous
\* (bootstrapped 3 minutes ago, asked for a web auth code then); subject 3
\* verified a@x.com 20 minutes ago (its session token has expired, its
\* refresh cookie has not).  A verification code is pending for both emails.
LegacyTokens ==
    { SignJWT("SESSION", 1, 2, NoEmail, 0 - 3, SessionTtl),
      SignJWT("REFRESH", 1, 0, NoEmail, 0 - 3, RefreshTtl),
      SignJWT("WEB_AUTH", 1, 0, NoEmail, 0 - 3, WebAuthTtl),
      SignJWT("SESSION", 3, 4, "a@x.com", 0 - 20, SessionTtl),
      SignJWT("REFRESH", 3, 0, NoEmail, 0 - 20, RefreshTtl) }

Store ==
    /\ now = 0
    /\ steps = 0
    /\ nextUuid = 5
    /\ issued = LegacyTokens
    /\ emailToUser = [e \in Emails |-> IF e = "a@x.com" THEN 3 ELSE 0]
    /\ codes = [e \in Emails |-> "123456"]
    /\ last = Idle
    /\ redeemed = {}
    /\ verifying = [p \in Procs |-> NoVerify]

\* any set of optional hooks; useTopLevelDomain is left at its default
World ==
    /\ Store
    /\ hooks \in HookConfigs
    /\ useTopLevelDomain = FALSE
    /\ host = ApiHost
    /\ client = NoClient

\* the hooks honour their contract: every call returns
Init == World /\ faulty = FALSE

\* the hook backend may be unreachable: a hook call may throw
InitFaulty == World /\ faulty = TRUE

\* the server is idle and the exploration has steps left
Ready == last.op = "idle" /\ steps < MaxSteps

\* one request through withAuth, start to end
Handle(req, code) ==
    /\ \E res \in {withAuth(req, code)} :
        /\ last' = res.out
        /\ nextUuid' = nextUuid + res.uuids
        /\ issued' = issued \cup Delivered(res.out)
        /\ emailToUser' = res.emailToUser
        /\ codes' = res.codes
        /\ redeemed' = redeemed \cup (IF res.out.op = "redeem" THEN {req.code} ELSE {})
    /\ steps' = steps + 1
    /\ UNCHANGED <<now, verifying, config, client>>

\* the hook that throws if this request calls it: none unless the backend
\* is faulty; only the requests for which `plain` holds are tried with a
\* throwing hook
Fails(called, plain) == {"none"} \cup (IF faulty /\ plain THEN called ELSE {})

\* a request to a path outside /auth/
Page ==
    /\ Ready
    /\ \E session \in Presentable("SESSION"), refresh \in Presentable("REFRESH"),
          code \in Presentable("WEB_AUTH") :
           \E fail \in Fails({"onNewUser", "getUserEmail"}, code = NoToken) :
               Handle(Request("", "GET", session, refresh, NoAuth, code, NoEmail, NoCode,
                              NoBody, TRUE, fail), NoCode)

Anonymous ==
    /\ Ready
    /\ \E body \in {NoBody, JsonBody(0, 0), JsonBody(CustomExpiresIn, CustomExpiresIn)},
          fail \in Fails({"onNewUser"}, TRUE) :
           Handle(Request("anonymous", "POST", NoToken, NoToken, NoAuth, NoToken, NoEmail,
                          NoCode, body, TRUE, fail), NoCode)

RequestCode ==
    /\ Ready
    /\ \E email \in Emails, code \in GeneratedCodes, sendOk \in BOOLEAN :
           \E fail \in Fails({"storeVerificationCode", "sendVerificationCode"}, sendOk) :
               Handle(Request("request-code", "POST", NoToken, NoToken, NoAuth, NoToken,
                              email, NoCode, JsonBody(0, 0), sendOk, fail), code)

\* the caller's cookies travel with the request
Verify ==
    /\ Ready
    /\ \E email \in Emails, vcode \in GeneratedCodes,
          session \in Presentable("SESSION"), refresh \in {NoToken} \cup issued :
           \E fail \in Fails({"getUserIdByEmail", "verifyVerificationCode", "onNewUser",
                              "onAuthenticate", "onEmailVerified"},
                             session = NoToken /\ refresh = NoToken) :
               /\ refresh # NoToken => refresh.aud = "REFRESH" /\ refresh.userId = session.userId
               /\ Handle(Request("verify", "POST", session, refresh, NoAuth, NoToken, email,
                                 vcode, JsonBody(0, 0), TRUE, fail), NoCode)

Refresh ==
    /\ Ready
    /\ \E auth \in {NoAuth, OtherAuth} \cup {Bearer(t) : t \in Presentable("REFRESH") \ {NoToken}},
          refresh \in Presentable("REFRESH") :
           \E fail \in Fails({"getUserEmail"}, auth = NoAuth) :
               Handle(Request("refresh", "POST", NoToken, refresh, auth, NoToken, NoEmail,
                              NoCode, NoBody, TRUE, fail), NoCode)

Logout ==
    /\ Ready
    /\ \E session \in Presentable("SESSION"), refresh \in Presentable("REFRESH") :
           Handle(Request("logout", "POST", session, refresh, NoAuth, NoToken, NoEmail,
                          NoCode, NoBody, TRUE, "none"), NoCode)

WebCode ==
    /\ Ready
    /\ \E auth \in {NoAuth, OtherAuth} \cup {Bearer(t) : t \in Presentable("SESSION") \ {NoToken}} :
           Handle(Request("web-code", "POST", NoToken, NoToken, auth, NoToken, NoEmail,
                          NoCode, NoBody, TRUE, "none"), NoCode)

\* /auth/ alone, an auth route with another method, an unknown auth route
Rejected ==
    /\ Ready
    /\ \E rm \in {<<"/", "POST">>, <<"verify", "GET">>, <<"invalid", "POST">>} :
           Handle(Request(rm[1], rm[2], NoToken, NoToken, NoAuth, NoToken, NoEmail,
                          NoCode, NoBody, TRUE, "none"), NoCode)

\* the response has gone out: the server is ready for the next request
Deliver ==
    /\ last.op # "idle"
    /\ last' = Idle
    /\ UNCHANGED <<now, steps, nextUuid, issued, emailToUser, codes, redeemed, verifying, config, client>>

\* time passes between requests
Tick ==
    /\ Ready
    /\ steps' = steps + 1
    /\ \E d \in TickSteps : now' = now + d
    /\ UNCHANGED <<nextUuid, issued, emailToUser, codes, last, redeemed, verifying, config, client>>

Next ==
    \/ Page
    \/ Anonymous
    \/ RequestCode
    \/ Verify
    \/ Refresh
    \/ Logout
    \/ WebCode
    \/ Rejected
    \/ Deliver
    \/ Tick

\* /auth/verify requests whose hook calls interleave
NextConcurrent ==
    \E p \in Procs :
        \/ VerifyArrive(p)
        \/ VerifyLookup(p)
        \/ VerifyCheck(p)
        \/ VerifyNewUser(p)
        \/ VerifyAuthenticate(p)
        \/ VerifyEmailVerified(p)
        \/ VerifyRespond(p)

\* createAuthRouter({ hooks, useTopLevelDomain }) reached at some host
InitDomain ==
    /\ Store
    /\ hooks = OptionalHooks
    /\ faulty = FALSE
    /\ useTopLevelDomain \in BOOLEAN
    /\ host \in Hosts
    /\ client = NoClient

Spec == Init /\ [][Next]_vars

SpecConcurrent == Init /\ [][NextConcurrent]_vars

SpecDomain == InitDomain /\ [][Next]_vars

SpecFaulty == InitFaulty /\ [][Next]_vars

(***************************** the client's steps **************************)
\* number of operations started on the client
MaxCalls == 2

\* an operation can be started on slot p: the first slot that is free
CanCall(p) ==
    /\ client.proc[p].pc = "idle"
    /\ client.calls < MaxCalls
    /\ \A q \in Procs : q < p => client.proc[q].pc # "idle"

CallRequestCode(p) ==
    /\ CanCall(p)
    /\ client' = requestCode(begin(client), p)
    /\ UNCHANGED server

CallVerifyEmail(p) ==
    /\ CanCall(p)
    /\ client' = verifyEmail(begin(client), p)
    /\ UNCHANGED server

CallLogout(p) ==
    /\ CanCall(p)
    /\ client' = logout(begin(client), p)
    /\ UNCHANGED server

CallRefresh(p) ==
    /\ CanCall(p)
    /\ client' = clientRefresh(begin(client), p)
    /\ UNCHANGED server

CallGetWebAuthCode(p) ==
    /\ CanCall(p)
    /\ client' = getWebAuthCode(begin(client), p)
    /\ UNCHANGED server

\* fetch settles and post returns or throws
PostSettles(p) ==
    /\ client.proc[p].pc = "fetching"
    /\ \E response \in Responses(client.proc[p].path) : client' = post(begin(client), p, response)
    /\ UNCHANGED server

\* the operation resumes after its await and runs to its end
Complete(p) ==
    /\ client.proc[p].pc = "settled"
    /\ client' = complete(begin(client), p)
    /\ UNCHANGED server

NextClient ==
    \E p \in Procs :
        \/ CallRequestCode(p)
        \/ CallVerifyEmail(p)
        \/ CallLogout(p)
        \/ CallRefresh(p)
        \/ CallGetWebAuthCode(p)
        \/ PostSettles(p)
        \/ Complete(p)

\* a client of a server whose hooks return
InitClient ==
    /\ Store
    /\ hooks = OptionalHooks
    /\ faulty = FALSE
    /\ useTopLevelDomain = FALSE
    /\ host = ApiHost
    /\ client \in {createAuthClient(c) : c \in ClientConfigs}

SpecClient == InitClient /\ [][NextClient]_vars

(***************************** properties **********************************)
\* `last` holds the request being answered and what the server did with it
Busy == last.op # "idle"

\* a request to a path outside /auth/
IsPage == Busy /\ last.req.route = ""

\* a POST to /auth/<route>
IsRoute(route) == Busy /\ last.req.route = route /\ last.req.method = "POST"

\* the token verifies with the audience: well-formed, signed with the
\* server's secret, not expired, and tagged with that audience
Verifies(token, aud) ==
    /\ token.kind = "jwt"
    /\ token.sig = "ok"
    /\ token.exp > now
    /\ token.aud = aud

\* the calls of a hook during the request
Fired(hook) == {i \in DOMAIN last.calls : last.calls[i].hook = hook}

\* the hook fired exactly once, with these arguments (a hook that is not
\* configured cannot fire)
FiredOnce(hook, userId, email) ==
    IF Has(hook)
    THEN /\ Cardinality(Fired(hook)) = 1
         /\ \A i \in Fired(hook) :
               last.calls[i].userId = userId /\ last.calls[i].email = email
    ELSE Fired(hook) = {}

\* the tokens the response sets under a cookie name
CookieTokens(name) ==
    {last.cookies[i].token : i \in {j \in DOMAIN last.cookies : last.cookies[j].name = name}}

\* the subject id was not known to anyone before this request
Fresh(userId) ==
    /\ userId # 0
    /\ \A t \in (issued \ Delivered(last)) \cup {Forged(a) : a \in Auds} :
          t.userId # userId /\ t.sessionId # userId

\* the wrapped handler ran once
HandlerRan == Len(last.handler) = 1

\* the cookie resolution took the identity from the session cookie: the
\* handler got the presented token itself
ResolvedFromSession ==
    IsPage /\ HandlerRan /\ last.handler[1].sessionToken = last.req.session

\* the cookie resolution rotated on the refresh cookie: a new pair for the
\* refresh cookie's subject
Rotated ==
    /\ IsPage /\ HandlerRan /\ last.minted # <<>>
    /\ last.req.refresh.kind = "jwt"
    /\ last.handler[1].userId = last.req.refresh.userId

\* the code parameter was redeemed
Redeemed == IsPage /\ last.status = 302

\* the token /auth/refresh looks at: the bearer token, else the refresh cookie
RefreshPresented ==
    IF last.req.auth.scheme = "bearer" THEN last.req.auth.token ELSE last.req.refresh

\* a hook threw during the request
HookThrew == \E i \in DOMAIN last.calls : last.calls[i].hook = last.req.fail

\* C1: in the cookie resolution the session cookie gives the identity only
\* if it verifies as SESSION, and the refresh cookie leads to a rotation only
\* if it verifies as REFRESH (so a REFRESH token in the session cookie and a
\* SESSION token in the refresh cookie count as invalid).
C1_ResolverChecksAudience ==
    /\ ResolvedFromSession => Verifies(last.req.session, "SESSION")
    /\ Rotated => Verifies(last.req.refresh, "REFRESH")

\* C1 witness: a live REFRESH token in the session cookie and a live SESSION
\* token in the refresh cookie, and the request was served as a stranger
C1_Witness ==
    /\ IsPage /\ HandlerRan
    /\ Verifies(last.req.session, "REFRESH")
    /\ Verifies(last.req.refresh, "SESSION")
    /\ Fresh(last.handler[1].userId)

\* C2: /auth/refresh answers 401 and mints nothing whenever the presented
\* token does not verify as REFRESH.
C2_RefreshRejectsOtherAudiences ==
    (IsRoute("refresh") /\ ~Verifies(RefreshPresented, "REFRESH"))
        => (last.status = 401 /\ last.minted = <<>>)

\* C3: /auth/web-code mints a code only for a bearer token that verifies as
\* SESSION; anything else is a 401 without a code.
C3_WebCodeNeedsSessionToken ==
    (IsRoute("web-code")
       /\ ~(last.req.auth.scheme = "bearer" /\ Verifies(last.req.auth.token, "SESSION")))
        => (last.status = 401 /\ last.minted = <<>> /\ last.body.code = NoToken)

\* C4: the code parameter is redeemed only if it verifies as WEB_AUTH, and a
\* WEB_AUTH token is accepted neither by the cookie resolution (as session or
\* refresh cookie) nor by /auth/refresh nor by /auth/web-code.
C4_WebAuthCodeOnlyRedeemable ==
    /\ Redeemed => Verifies(last.req.code, "WEB_AUTH")
    /\ ResolvedFromSession => last.req.session.aud # "WEB_AUTH"
    /\ Rotated => last.req.refresh.aud # "WEB_AUTH"
    /\ (IsRoute("refresh") /\ RefreshPresented.aud = "WEB_AUTH")
          => (last.status = 401 /\ last.minted = <<>>)
    /\ (IsRoute("web-code") /\ last.req.auth.token.aud = "WEB_AUTH")
          => (last.status = 401 /\ last.minted = <<>>)

\* C4 witness: a live WEB_AUTH code sent to /auth/refresh as bearer token
\* was refused
C4_Witness ==
    /\ IsRoute("refresh")
    /\ last.req.auth.scheme = "bearer"
    /\ Verifies(last.req.auth.token, "WEB_AUTH")
    /\ last.status = 401

\* the outcome of an anonymous bootstrap: the handler ran once as a subject
\* nobody knew before, onNewUser fired once for that subject, and the
\* response carries a session and a refresh cookie for it
BootstrapOutcome ==
    /\ last.status = 200
    /\ HandlerRan
    /\ Fresh(last.handler[1].userId)
    /\ FiredOnce("onNewUser", last.handler[1].userId, NoEmail)
    /\ Len(last.cookies) = 2
    /\ \E t \in CookieTokens(SESSION_TOKEN_COOKIE) :
          t.aud = "SESSION" /\ t.userId = last.handler[1].userId
    /\ \E t \in CookieTokens(REFRESH_TOKEN_COOKIE) :
          t.aud = "REFRESH" /\ t.userId = last.handler[1].userId

\* a non-auth request that carries no cookie at all
CookielessPage ==
    IsPage /\ last.req.session = NoToken /\ last.req.refresh = NoToken

SessionOutcome ==
    /\ HandlerRan
    /\ last.handler[1] = HandlerCall(last.req.session.userId,
                                     last.req.session.sessionId, last.req.session)
    /\ last.calls = <<>>
    /\ last.cookies = <<>>
    /\ last.minted = <<>>

\* C6 as stated: every request (to a non-auth path, where the handler is)
\* whose session cookie verifies as SESSION is passed to the handler under
\* the token's identity, with no hook fired and no Set-Cookie added,
\* whatever the refresh cookie holds.
C6_ValidSessionNeverRotates ==
    (IsPage /\ Verifies(last.req.session, "SESSION")) => SessionOutcome

\* C6 as amended: the same for a request whose code parameter does not
\* verify as WEB_AUTH.
C6_ValidSessionWithoutCodeNeverRotates ==
    (IsPage /\ ~Verifies(last.req.code, "WEB_AUTH")
       /\ Verifies(last.req.session, "SESSION")) => SessionOutcome

\* C6 witness: a live session cookie next to a live refresh cookie, and the
\* response sets no cookie
C6_Witness ==
    /\ IsPage /\ last.req.code = NoToken
    /\ Verifies(last.req.session, "SESSION")
    /\ Verifies(last.req.refresh, "REFRESH")
    /\ SessionOutcome

\* the outcome of a rotation: one new session token and one new refresh
\* token, both for the refresh cookie's subject; the handler gets that
\* subject and the new session token; both cookies are set; no onNewUser
RotationOutcome ==
    /\ Len(last.minted) = 2
    /\ last.minted[1].aud = "SESSION" /\ last.minted[2].aud = "REFRESH"
    /\ last.minted[1].userId = last.req.refresh.userId
    /\ last.minted[2].userId = last.req.refresh.userId
    /\ last.minted[1] \notin issued \ Delivered(last)
    /\ HandlerRan
    /\ last.handler[1].userId = last.req.refresh.userId
    /\ last.handler[1].sessionToken = last.minted[1]
    /\ last.cookies = AuthCookies(last.minted[1], last.minted[2])
    /\ Fired("onNewUser") = {}

\* a session cookie that is there but does not verify as SESSION, next to a
\* refresh cookie that verifies as REFRESH
RotationCase ==
    /\ IsPage
    /\ last.req.session # NoToken
    /\ ~Verifies(last.req.session, "SESSION")
    /\ Verifies(last.req.refresh, "REFRESH")

C8_CredentialsNeverFailThePage ==
    (IsPage /\ last.req.code = NoToken /\ ~HookThrew)
        => /\ HandlerRan
           /\ last.handler[1].userId # 0
           /\ last.handler[1].sessionId # 0
           /\ last.handler[1].sessionToken.kind = "jwt"

\* C8 witness: a malformed session cookie next to an expired refresh cookie,
\* and the handler ran
C8_Witness ==
    /\ IsPage /\ last.req.code = NoToken
    /\ last.req.session = Garbage
    /\ last.req.refresh.kind = "jwt" /\ last.req.refresh.sig = "ok"
    /\ last.req.refresh.exp <= now
    /\ HandlerRan

\* /auth/verify got a matching code; `known` tells whether getUserIdByEmail
\* found a subject for the email
VerifyCase(known) ==
    /\ IsRoute("verify")
    /\ Len(last.calls) >= 2
    /\ last.calls[1].hook = "getUserIdByEmail"
    /\ (last.calls[1].ret # 0) = known
    /\ last.calls[2].hook = "verifyVerificationCode"
    /\ last.calls[2].ret = 1

\* the /auth/verify response is a success for the subject: its id in the
\* body, every token for it, the session token carrying the email
VerifiedAs(userId) ==
    /\ last.status = 200
    /\ last.body.userId = userId
    /\ last.body.sessionToken.aud = "SESSION"
    /\ last.body.sessionToken.email = last.req.email
    /\ \A t \in Delivered(last) : t.userId = userId
    /\ FiredOnce("onAuthenticate", userId, last.req.email)
    /\ FiredOnce("onEmailVerified", userId, last.req.email)

C10_VerifyKnownEmailSwitchesIdentity ==
    VerifyCase(TRUE)
        => /\ VerifiedAs(last.calls[1].ret)
           /\ Fired("onNewUser") = {}

\* C10 witness: a caller holding a live session of another subject verified
\* a known email
C10_Witness ==
    /\ VerifyCase(TRUE)
    /\ Verifies(last.req.session, "SESSION")
    /\ last.req.session.userId # last.calls[1].ret
    /\ last.status = 200

\* /auth/verify asked the backend about the code and the backend said no
VerifyRefused ==
    /\ IsRoute("verify")
    /\ Len(last.calls) >= 2
    /\ last.calls[2].hook = "verifyVerificationCode"
    /\ last.calls[2].ret = 0

\* C11: /auth/verify with a code that verifyVerificationCode rejects answers
\* 400 with the generic message, fires none of onNewUser, onAuthenticate and
\* onEmailVerified, mints no token and sets no cookie.
C11_RejectedCodeChangesNothing ==
    VerifyRefused
        => /\ last.status = 400
           /\ last.body = TextBody("Invalid or expired code")
           /\ Fired("onNewUser") = {}
           /\ Fired("onAuthenticate") = {}
           /\ Fired("onEmailVerified") = {}
           /\ last.minted = <<>>
           /\ last.cookies = <<>>
           /\ Delivered(last) = {}

\* C11 witness: a wrong code for an email no subject maps to, sent by a
\* caller with a live session, was refused
C11_Witness ==
    /\ VerifyRefused
    /\ getUserIdByEmail(last.req.email) = 0
    /\ Verifies(last.req.session, "SESSION")
    /\ last.status = 400

\* the /auth/verify request of the process was answered with success
Succeeded(p) == verifying[p].pc = "done" /\ verifying[p].status = 200

\* the requests for which onNewUser was called with a new id for the email
Announced(email) ==
    {p \in Procs : verifying[p].email = email /\ verifying[p].announced}

\* C12 as stated: with a backend that records email -> subject in
\* onEmailVerified, all successful /auth/verify requests for one email
\* resolve to one subject id and onNewUser fires at most once for the email,
\* in any interleaving of the requests' hook calls.
C12_VerifiedIdentityMonotonic ==
    Has("onEmailVerified")
        => /\ \A p, q \in Procs :
                 (Succeeded(p) /\ Succeeded(q) /\ verifying[p].email = verifying[q].email)
                     => verifying[p].userId = verifying[q].userId
           /\ \A e \in Emails : Cardinality(Announced(e)) <= 1

\* no two /auth/verify requests for the email overlap: of any two, one
\* arrived after the other had been answered
OneAtATime(email) ==
    \A p, q \in Procs :
       (p # q /\ verifying[p].pc # "idle" /\ verifying[q].pc # "idle"
          /\ verifying[p].email = email /\ verifying[q].email = email)
           => (p \in verifying[q].after \/ q \in verifying[p].after)

\* C12 as amended: the same, provided no two /auth/verify requests for the
\* email overlap.
C12_SequentialVerifiesAgree ==
    Has("onEmailVerified")
        => \A e \in Emails :
              OneAtATime(e)
                  => /\ \A p, q \in Procs :
                           (Succeeded(p) /\ Succeeded(q)
                              /\ verifying[p].email = e /\ verifying[q].email = e)
                               => verifying[p].userId = verifying[q].userId
                     /\ Cardinality(Announced(e)) <= 1

\* C12 witness: an email no subject mapped to was verified twice, the
\* second request arriving after the first was answered
C12_Witness ==
    /\ Has("onEmailVerified")
    /\ \E p, q \in Procs :
          /\ Succeeded(p) /\ Succeeded(q) /\ p \in verifying[q].after
          /\ verifying[p].email = verifying[q].email
          /\ OneAtATime(verifying[p].email)
          /\ verifying[p].announced
          /\ verifying[q].userId = verifying[p].userId

\* a caller holding a live anonymous session (session cookie without email,
\* refresh cookie of the same subject) verified an email no subject mapped to
AnonymousCallerVerified ==
    /\ VerifyCase(FALSE)
    /\ last.status = 200
    /\ Verifies(last.req.session, "SESSION")
    /\ last.req.session.email = NoEmail

\* C13: when a caller holding an anonymous session verifies an email that
\* is not yet in the system, the account is upgraded in place: the userId
\* in the response and in the new cookies is the caller's anonymous userId.
C13_UpgradedInPlace ==
    AnonymousCallerVerified
        => /\ last.body.userId = last.req.session.userId
           /\ \A i \in DOMAIN last.cookies :
                 last.cookies[i].token.userId = last.req.session.userId

\* the outcome of a refresh: 200 with a new session token and a new refresh
\* token in the body, both for the subject of the presented token
RefreshOutcome ==
    /\ last.status = 200
    /\ last.body.sessionToken.aud = "SESSION"
    /\ last.body.refreshToken.aud = "REFRESH"
    /\ last.body.sessionToken \notin issued \ Delivered(last)
    /\ \A t \in Delivered(last) : t.userId = RefreshPresented.userId

\* C14: /auth/refresh answers 401 when neither a bearer token nor a refresh
\* cookie is there and 401 when the presented token is not a valid refresh
\* token; with a valid refresh token it answers 200 with a new session token
\* and a new refresh token for the presented token's subject; it never fires
\* onNewUser.
C14_RefreshAnswers ==
    IsRoute("refresh")
        => /\ RefreshPresented = NoToken => last.status = 401
           /\ ~Verifies(RefreshPresented, "REFRESH") => last.status = 401
           /\ Verifies(RefreshPresented, "REFRESH") => RefreshOutcome
           /\ Fired("onNewUser") = {}

\* C15: /auth/logout always answers 200 with {success: true} and clears
\* both auth_session_token and auth_refresh_token with Max-Age=0, whatever
\* tokens the request carries, and fires no hook.
C15_LogoutAlwaysClears ==
    IsRoute("logout")
        => /\ last.status = 200
           /\ last.body.kind = "json" /\ last.body.success
           /\ Len(last.cookies) = 2
           /\ \E i \in DOMAIN last.cookies :
                 last.cookies[i].name = SESSION_TOKEN_COOKIE
           /\ \E i \in DOMAIN last.cookies :
                 last.cookies[i].name = REFRESH_TOKEN_COOKIE
           /\ \A i \in DOMAIN last.cookies :
                 last.cookies[i].maxAge0 /\ last.cookies[i].token = NoToken
           /\ last.calls = <<>>
           /\ last.minted = <<>>

\* C15 witness: a logout without a usable session (a malformed session
\* cookie, a forged refresh cookie) was answered like any other
C15_Witness ==
    /\ IsRoute("logout")
    /\ last.req.session = Garbage
    /\ last.req.refresh = Forged("REFRESH")
    /\ last.status = 200

\* the parameters of a query
Params(query) == {query[i] : i \in DOMAIN query}

\* C16: a request to a non-auth path whose code parameter verifies as
\* WEB_AUTH for subject S is answered 302; the Location is the request URL
\* with only the code parameter removed (path and the other parameters
\* kept); the response sets a session and a refresh cookie for S; the
\* handler is not invoked and onNewUser is not fired.
C16_RedeemedCodeRedirects ==
    (IsPage /\ Verifies(last.req.code, "WEB_AUTH"))
        => /\ last.status = 302
           /\ last.location.path = last.req.path
           /\ "code" \notin Params(last.location.query)
           /\ Params(last.location.query) = Params(last.req.query) \ {"code"}
           /\ Len(last.location.query) = Cardinality(Params(last.req.query) \ {"code"})
           /\ Len(last.cookies) = 2
           /\ \E t \in CookieTokens(SESSION_TOKEN_COOKIE) :
                 Verifies(t, "SESSION") /\ t.userId = last.req.code.userId
           /\ \E t \in CookieTokens(REFRESH_TOKEN_COOKIE) :
                 Verifies(t, "REFRESH") /\ t.userId = last.req.code.userId
           /\ last.handler = <<>>
           /\ Fired("onNewUser") = {}

\* C16 witness: a caller with a live session of one subject redeemed a code
\* of another and was redirected to /a/b?x=1
C16_Witness ==
    /\ Redeemed
    /\ Verifies(last.req.session, "SESSION")
    /\ last.req.session.userId # last.req.code.userId
    /\ last.req.query = <<"x=1", "code">>
    /\ last.location = [path |-> "/a/b", query |-> <<"x=1">>]

\* the same request without the code parameter
WithoutCode(req) ==
    Request(req.route, req.method, req.session, req.refresh, req.auth, NoToken,
            req.email, req.vcode, req.body, req.sendOk, req.fail)

\* two outcomes agree in everything but the request they answer
SameHandling(a, b) == [a EXCEPT !.req = NoRequest] = [b EXCEPT !.req = NoRequest]

\* the step takes in a request to a non-auth path whose code parameter is
\* there and does not verify as WEB_AUTH
TakesInvalidCode ==
    /\ last.op = "idle" /\ last'.op # "idle"
    /\ last'.req.route = ""
    /\ last'.req.code # NoToken
    /\ ~Verifies(last'.req.code, "WEB_AUTH")

\* C17: a request whose code parameter fails the WEB_AUTH verification is
\* handled exactly as the same request without the parameter: the same
\* identity goes to the handler, the same hooks fire, the same Set-Cookie
\* headers come back, and there is no redirect and no error.
C17_InvalidCodeIsIgnored ==
    [][TakesInvalidCode
         => /\ SameHandling(last', withAuth(WithoutCode(last'.req), NoCode).out)
            /\ last'.status = 200
            /\ last'.location = NoLocation]_vars

\* C17 witness: a live SESSION token sent as code was ignored and the
\* caller's own session cookie gave the identity
C17_Witness ==
    /\ IsPage
    /\ Verifies(last.req.code, "SESSION")
    /\ ResolvedFromSession
    /\ last.handler[1].userId # last.req.code.userId
    /\ last.status = 200

\* C18: a web auth code is one-time: once a code has been redeemed, a later
\* request that presents the same code is not redeemed and gets no session
\* for the code's subject.
C18_CodeIsOneTime ==
    [][(/\ last.op = "idle" /\ last'.op # "idle"
        /\ last'.req.route = ""
        /\ last'.req.code \in redeemed)
          => /\ last'.status # 302
             /\ \A i \in DOMAIN last'.cookies :
                   last'.cookies[i].token.userId # last'.req.code.userId]_vars

\* the strings and tokens a response shows its receiver: the body's message
\* and code field, and the cookie values
ResponseShows(code) ==
    \/ last.body.msg = code
    \/ last.body.code # NoToken
    \/ last.cookies # <<>>
    \/ last.location # NoLocation

\* C19: POST /auth/request-code calls storeVerificationCode and then
\* sendVerificationCode, both with the email of the request and with the same
\* generated code; it answers success exactly if sendVerificationCode
\* returned true and answers 500 (a response, not a rejected promise)
\* otherwise; the code is not in the response.
C19_RequestCodeStoresThenSends ==
    IsRoute("request-code") =>
        /\ Len(last.calls) = 2
        /\ last.calls[1].hook = "storeVerificationCode"
        /\ last.calls[2].hook = "sendVerificationCode"
        /\ last.calls[1].email = last.req.email
        /\ last.calls[2].email = last.req.email
        /\ last.calls[1].code \in GeneratedCodes
        /\ last.calls[2].code = last.calls[1].code
        /\ codes[last.req.email] = last.calls[1].code
        /\ (last.status = 200 /\ last.body.success) <=> (last.calls[2].ret = 1)
        /\ last.calls[2].ret # 1 => last.status = 500 /\ ~last.body.success
        /\ ~ResponseShows(last.calls[1].code)

\* a request for a code whose delivery failed has been answered with the failure
C19_Witness ==
    /\ IsRoute("request-code")
    /\ last.calls[2].ret = 0
    /\ last.status = 500
    /\ last.body.msg = "Failed to send verification code"

\* the Domain attribute the documentation and the tests ask for: the last
\* two labels of the request host when useTopLevelDomain is on and the host
\* is a multi-label name, none otherwise
topLevelDomain(h) ==
    IF h.ip \/ Len(h.labels) < 2 THEN NoDomain
    ELSE SubSeq(h.labels, Len(h.labels) - 1, Len(h.labels))

ExpectedDomain == IF useTopLevelDomain THEN topLevelDomain(host) ELSE NoDomain

\* C20: every Set-Cookie header of createAuthRouter and of withAuth carries
\* Domain=.<top-level domain of the request host> exactly when
\* useTopLevelDomain is true and the host is a multi-label name; no Domain
\* attribute with the option off, on localhost or on an IP literal.
C20_CookieDomainFollowsOption ==
    \A i \in DOMAIN last.cookies : last.cookies[i].domain = ExpectedDomain

\* C21: POST /auth/anonymous answers 200 with {userId, sessionToken,
\* refreshToken} of a freshly minted subject, whether the request has no
\* body, an empty JSON object or a body with expiry overrides.
C21_AnonymousTakesAnyBody ==
    IsRoute("anonymous") =>
        /\ last.status = 200
        /\ last.body.kind = "json"
        /\ last.body.userId = nextUuid - 2
        /\ last.body.sessionToken.userId = last.body.userId
        /\ last.body.refreshToken.userId = last.body.userId

\* the lifetime a body field of /auth/anonymous asks for, or the default
Asked(given, default) == IF given = 0 THEN default ELSE given

\* C22: the refreshToken in the body of /auth/anonymous expires after the
\* caller's refreshTokenExpiresIn when one is given and after 7 days
\* otherwise; the sessionToken expires after sessionTokenExpiresIn when one
\* is given and after 15 minutes otherwise.
C22_AnonymousTokenLifetimes ==
    (IsRoute("anonymous") /\ last.status = 200) =>
        /\ last.body.refreshToken.exp
             = now + Asked(last.req.body.refreshTokenExpiresIn, RefreshTtl)
        /\ last.body.sessionToken.exp
             = now + Asked(last.req.body.sessionTokenExpiresIn, SessionTtl)

\* a request to a non-auth path that carries only the code
CodeOnly(code) ==
    Request("", "GET", NoToken, NoToken, NoAuth, code, NoEmail, NoCode, NoBody, TRUE, "none")

\* the cookies are a SESSION and a REFRESH token of the subject, and the
\* session token has the email
CookiesFor(cookies, userId, email) ==
    /\ Len(cookies) = 2
    /\ cookies[1].name = SESSION_TOKEN_COOKIE
    /\ cookies[1].token.aud = "SESSION"
    /\ cookies[1].token.userId = userId
    /\ cookies[1].token.email = email
    /\ cookies[2].name = REFRESH_TOKEN_COOKIE
    /\ cookies[2].token.aud = "REFRESH"
    /\ cookies[2].token.userId = userId

\* /auth/web-code has answered with a code
WebCodeMinted == IsRoute("web-code") /\ last.status = 200

\* C23: the WEB_AUTH code minted by /auth/web-code carries the subject id
\* of the presented token and its email exactly when the token has one;
\* redeeming the code through the code parameter yields a session token and
\* cookies for the same subject id with the same email.
C23_WebCodeCarriesIdentity ==
    /\ WebCodeMinted =>
          /\ last.body.code.aud = "WEB_AUTH"
          /\ last.body.code.userId = last.req.auth.token.userId
          /\ last.body.code.email = last.req.auth.token.email
          /\ LET redeemedAs == withAuth(CodeOnly(last.body.code), NoCode).out
             IN /\ redeemedAs.status = 302
                /\ CookiesFor(redeemedAs.cookies, last.req.auth.token.userId,
                              last.req.auth.token.email)
    /\ (IsPage /\ last.status = 302) =>
          CookiesFor(last.cookies, last.req.code.userId, last.req.code.email)

\* C23 witness: a code was minted from the session token of a verified
\* subject, and it has the email
C23_Witness ==
    /\ WebCodeMinted
    /\ last.req.auth.token.email \in Emails
    /\ last.body.code.email = last.req.auth.token.email

\* the tokens of an audience among the elements of a sequence of tokens
OfAud(tokens, aud) ==
    {tokens[i] : i \in {j \in DOMAIN tokens : tokens[j] # NoToken /\ tokens[j].aud = aud}}

\* session tokens and refresh tokens come together and for one subject
Paired(tokens) ==
    /\ (OfAud(tokens, "SESSION") = {}) <=> (OfAud(tokens, "REFRESH") = {})
    /\ Cardinality(OfAud(tokens, "SESSION")) <= 1
    /\ \A s \in OfAud(tokens, "SESSION"), r \in OfAud(tokens, "REFRESH") :
           r.userId = s.userId

\* the tokens the Set-Cookie headers of the response carry
CookieSeq == [i \in DOMAIN last.cookies |-> last.cookies[i].token]

\* C24: in every response of every operation a newly minted session token
\* comes with a newly minted refresh token for the same subject id, and no
\* refresh token is minted without a session token: among the tokens the
\* request minted, among the cookies it set and in the body it returned.
C24_SessionAndRefreshTogether ==
    /\ Paired(last.minted)
    /\ Paired(CookieSeq)
    /\ Paired(<<last.body.sessionToken, last.body.refreshToken>>)
    /\ \A t \in OfAud(CookieSeq, "SESSION") \cup OfAud(CookieSeq, "REFRESH") :
           t \in OfAud(last.minted, t.aud)
    /\ OfAud(<<last.body.sessionToken>>, "SESSION") \subseteq OfAud(last.minted, "SESSION")
    /\ OfAud(<<last.body.refreshToken>>, "REFRESH") \subseteq OfAud(last.minted, "REFRESH")

\* C24 witness: /auth/refresh with a bearer token and no cookie answered
\* with a new session token and a new refresh token in the body only
C24_Witness ==
    /\ IsRoute("refresh")
    /\ last.status = 200
    /\ last.cookies = <<>>
    /\ last.body.sessionToken.aud = "SESSION"
    /\ last.body.refreshToken.aud = "REFRESH"
    /\ last.body.refreshToken.userId = last.body.sessionToken.userId

\* the subject ids onNewUser was called with during a request, in order
AnnouncedIn(out) ==
    LET fired == SelectSeq(out.calls, LAMBDA c : c.hook = "onNewUser")
    IN [i \in DOMAIN fired |-> fired[i].userId]

\* the subject ids a request minted: the subjects of its new session tokens
\* that are among the uuids it drew (from `first` on)
MintedIn(out, first) ==
    {t.userId : t \in {s \in OfAud(out.minted, "SESSION") : s.userId >= first}}

\* the subject ids the request got from a token or from getUserIdByEmail
KnownIn(out) ==
    {t.userId : t \in {out.req.session, out.req.refresh, out.req.code, out.req.auth.token}
                        \ {NoToken}}
    \cup {out.calls[i].ret : i \in {j \in DOMAIN out.calls :
                                       out.calls[j].hook = "getUserIdByEmail"}}

\* C25: over any sequence of requests onNewUser is invoked exactly once for
\* each subject id the core mints and never for a subject id taken from a
\* token or returned by getUserIdByEmail: the calls of a request are one per
\* subject it minted, and the ids they carry are uuids drawn by that very
\* request, which no earlier or later request can draw again.
C25_OnNewUserOncePerMintedSubject ==
    [][(last.op = "idle" /\ last'.op # "idle") =>
         LET ids == AnnouncedIn(last')
         IN /\ Has("onNewUser") =>
                  /\ {ids[i] : i \in DOMAIN ids} = MintedIn(last', nextUuid)
                  /\ Len(ids) = Cardinality(MintedIn(last', nextUuid))
            /\ ~Has("onNewUser") => ids = <<>>
            /\ \A i \in DOMAIN ids :
                  /\ nextUuid <= ids[i] /\ ids[i] < nextUuid'
                  /\ ids[i] \notin KnownIn(last')
            /\ last'.op \in {"rotate", "refresh", "redeem", "session"} => ids = <<>>]_vars

\* C25 witness: /auth/verify for an unknown email minted a subject and
\* announced it to onNewUser once
C25_Witness ==
    /\ IsRoute("verify")
    /\ last.status = 200
    /\ Cardinality(Fired("onNewUser")) = 1
    /\ \A i \in Fired("onNewUser") : last.calls[i].userId = last.body.userId
    /\ last.body.userId = nextUuid - 2

\* the step in which post of the operation on slot p settles
Settles(p) == client.proc[p].pc = "fetching" /\ client'.proc[p].pc = "settled"

\* the step in which the operation on slot p, whose request went out, ends
Ends(p) == client.proc[p].pc = "settled" /\ client'.proc[p].pc = "idle"

\* the request of the operation on slot p has failed: a status outside 2xx
\* or no response at all
Failed(p) == client.proc[p].pc = "settled" /\ ~client.proc[p].response.ok

\* C26: when the request of a client operation (requestCode, verifyEmail,
\* logout, refresh, getWebAuthCode) fails, onError is called once, the
\* operation rejects, and the state it leaves has error = the failure
\* message and isLoading = false, with userId, sessionToken and email as
\* they were.
C26_FailedRequestIsReported ==
    [][\A p \in Procs :
          /\ (Settles(p) /\ ~client'.proc[p].response.ok) => client'.onError = 1
          /\ (Failed(p) /\ Ends(p)) =>
                /\ client'.proc[p].result = "rejected"
                /\ client'.onError = 0
                /\ client'.state.error = client.proc[p].response.text
                /\ client'.state.error # NoError
                /\ ~client'.state.isLoading
                /\ client'.state.userId = client.state.userId
                /\ client'.state.sessionToken = client.state.sessionToken
                /\ client'.state.email = client.state.email]_vars

\* C26 witness: requestCode was answered 500 and has rejected
C26_Witness ==
    \E p \in Procs :
        /\ client.proc[p].op = "requestCode"
        /\ client.proc[p].result = "rejected"
        /\ client.state.error = "Failed to send verification code"
        /\ ~client.state.isLoading
        /\ client.state.userId = 1

\* the step starts the operation `op`, which takes slot p, the first free one
Starts(p, op) ==
    /\ CanCall(p)
    /\ client'.calls = client.calls + 1
    /\ client'.proc[p].op = op

\* C27: a successful logout() leaves userId '', sessionToken '', email null
\* and isLoading false and discards the refresh token, so that a refresh()
\* that follows is refused without a request; logout() on a client whose
\* userId is already empty sends no request, changes no state and notifies
\* no subscriber.
C27_LogoutClearsAndIsIdempotent ==
    [][\A p \in Procs :
          /\ (Ends(p) /\ ~Failed(p) /\ client.proc[p].op = "logout") =>
                /\ client'.state.userId = EmptyId
                /\ client'.state.sessionToken = EmptyToken
                /\ client'.state.email = NoEmail
                /\ ~client'.state.isLoading
                /\ client'.refreshToken = NullToken
                /\ LET after == clientRefresh(begin(client'), p)
                   IN /\ after.proc[p].result = "rejected"
                      /\ after.sent = 0
                      /\ after.state = client'.state
          /\ (Starts(p, "logout") /\ client.state.userId = EmptyId) =>
                /\ client'.sent = 0
                /\ client'.sets = 0
                /\ client'.state = client.state
                /\ client'.refreshToken = client.refreshToken
                /\ client'.proc[p].result = "resolved"]_vars

\* C27 witness: after a logout that succeeded, a second logout has returned
\* without a request and without a call of setState
C27_Witness ==
    \E p \in Procs :
        /\ client.calls = 2
        /\ client.proc[p].op = "logout"
        /\ client.proc[p].result = "resolved"
        /\ client.sent = 0
        /\ client.sets = 0
        /\ client.state.userId = EmptyId
        /\ client.state.sessionToken = EmptyToken

\* C28: state.error reflects the last operation only: when an operation
\* completes successfully, state.error is null afterwards, even if an
\* earlier operation had failed.
C28_ErrorClearedBySuccess ==
    [][\A p \in Procs :
          (Ends(p) /\ ~Failed(p)) => client'.state.error = NoError]_vars

\* the operations in flight: started and not yet ended
InFlight == {p \in Procs : client.proc[p].pc # "idle"}

\* C29: state.isLoading is true whenever at least one operation of the
\* client is in flight and false when none is, also when two operations
\* started on the same client overlap.
C29_LoadingWhileInFlight == client.state.isLoading <=> (InFlight # {})

\* C30: withAuth mints a brand-new anonymous subject only when the request
\* has neither a usable session token nor a usable refresh token: a request
\* whose refresh cookie verifies as REFRESH is never bootstrapped as a new
\* anonymous identity, whether its session cookie is invalid or absent.
C30_ValidRefreshNeverBootstraps ==
    (IsPage /\ Verifies(last.req.refresh, "REFRESH")) => ~BootstrapOutcome

\* the request carries a code parameter that verifies as WEB_AUTH and names
\* a subject
ValidCode ==
    IsPage /\ Verifies(last.req.code, "WEB_AUTH") /\ last.req.code.userId # 0

\* C31: a valid code is redeemed before any cookie is examined: whatever
\* cookies the request holds, the answer is the 302 with a new cookie pair
\* for the code's subject; no hook and no handler runs, and every token
\* signed for the request belongs to the code's subject, never to the
\* subject of a cookie.
C31_CodeBeforeCookies ==
    ValidCode =>
        /\ last.status = 302
        /\ last.handler = <<>>
        /\ last.calls = <<>>
        /\ Len(last.cookies) = 2
        /\ \A i \in DOMAIN last.cookies :
              /\ ~last.cookies[i].maxAge0
              /\ last.cookies[i].token.userId = last.req.code.userId
        /\ \A i \in DOMAIN last.minted : last.minted[i].userId = last.req.code.userId

\* C31 witness: a code of one subject was redeemed on a request whose
\* session cookie is a live SESSION token of another subject
C31_Witness ==
    /\ ValidCode
    /\ last.status = 302
    /\ Verifies(last.req.session, "SESSION")
    /\ last.req.session.userId # last.req.code.userId

\* C32: POST /auth/refresh sets cookies only when the refresh token it
\* verified was taken from the auth_refresh_token cookie: a refresh that was
\* authenticated by the Authorization bearer token sets no cookie, whatever
\* cookies the request also carries.
C32_RefreshCookiesOnlyForCookieToken ==
    (IsRoute("refresh") /\ last.cookies # <<>>) =>
        /\ last.req.auth.scheme # "bearer"
        /\ RefreshPresented = last.req.refresh

\* the hooks that change the backend or reach the user
StateChangingHooks ==
    {"onNewUser", "onAuthenticate", "onEmailVerified", "storeVerificationCode",
     "sendVerificationCode"}

\* what a caller of /auth/verify can observe of an outcome: the status, the
\* body, the headers, and the state-changing hooks that fired
Observable(out) ==
    [status |-> out.status, body |-> out.body, cookies |-> out.cookies,
     location |-> out.location, minted |-> out.minted,
     hooks |-> {out.calls[i].hook : i \in DOMAIN out.calls} \cap StateChangingHooks]

\* an /auth/verify request whose code does not match the stored one
MismatchingCode ==
    IsRoute("verify") /\ ~verifyVerificationCode(last.req.email, last.req.vcode)

\* the same request for another email
ForEmail(email) == [last.req EXCEPT !.email = email]

\* C33: for a mismatching code, what /auth/verify answers and the
\* state-changing hooks it fires are the same for every email the code does
\* not match, whether getUserIdByEmail returns a subject id or null for it:
\* the answer does not reveal whether the email is new or existing, and
\* answering changes nothing.
C33_RefusalHidesEmail ==
    MismatchingCode =>
        \A email \in Emails :
            ~verifyVerificationCode(email, last.req.vcode) =>
                \E res \in {routeVerify(ForEmail(email))} :
                    /\ Observable(res.out) = Observable(last)
                    /\ Observable(last).hooks = {}
                    /\ res.uuids = 0
                    /\ res.emailToUser = emailToUser
                    /\ res.codes = codes

\* C33 witness: a code was refused for an email that has a subject while
\* another email the code does not match either has none
C33_Witness ==
    /\ MismatchingCode
    /\ last.status = 400
    /\ getUserIdByEmail(last.req.email) # 0
    /\ \E email \in Emails :
          /\ getUserIdByEmail(email) = 0
          /\ ~verifyVerificationCode(email, last.req.vcode)

\* the request ended in a server error: the router's catch answered 500, or
\* the promise withAuth returned rejected (status 0: no Response was built,
\* the error is the runtime's to report)
ServerError ==
    \/ last.status = 500 /\ last.body = ErrorBody("Internal server error")
    \/ last.status = 0 /\ last.body = NoBodyOut

\* C34: if a hook throws during a request (onNewUser in the bootstrap or in
\* /auth/anonymous, getUserEmail in a rotation or in /auth/refresh, any hook
\* of /auth/verify or /auth/request-code), the request ends in a server
\* error: the handler is not invoked, the response hands out no token and
\* sets no cookie, and the hook that threw was called once, as the last hook
\* call of the request.
C34_HookFailureIsFatal ==
    HookThrew =>
        /\ ServerError
        /\ last.handler = <<>>
        /\ last.cookies = <<>>
        /\ Delivered(last) = {}
        /\ last.location = NoLocation
        /\ Cardinality(Fired(last.req.fail)) = 1
        /\ last.calls[Len(last.calls)].hook = last.req.fail

\* C34 witness: onNewUser threw in the bootstrap of a request outside /auth/
C34_Witness ==
    /\ IsPage
    /\ HookThrew
    /\ last.req.fail = "onNewUser"
    /\ last.minted # <<>>

\* the check the server makes of a token of its audience: the code check of
\* the redemption for a web auth code, verifyToken (on which the cookie
\* resolution, /auth/refresh and /auth/web-code rest) for the others
Accepted(token) ==
    IF token.aud = "WEB_AUTH" THEN jwtVerify(token, "WEB_AUTH") /\ token.userId # 0
    ELSE verifyToken(token)

\* what the request being answered did agrees with the checks of the tokens
\* it presented
AnsweredByTheChecks ==
    /\ (IsPage /\ ~codeAccepted(last.req) /\ last.req.session.kind # "none") =>
          /\ last.op = "session" <=> sessionAccepted(last.req.session)
          /\ last.op = "rotate" <=>
                /\ ~sessionAccepted(last.req.session)
                /\ last.req.refresh.kind # "none"
                /\ refreshAccepted(last.req.refresh)
    /\ (IsRoute("refresh") /\ RefreshPresented.kind # "none") =>
          (last.status = 200 <=> verifyToken(RefreshPresented))

\* a step on which the clock stands still leaves the check of every issued
\* token as it was; a step of the clock can only end an acceptance
NoRevocation ==
    \A token \in issued :
        IF Accepted(token) THEN now' = now => Accepted(token)'
        ELSE ~Accepted(token)'

\* C35: whether a token is accepted depends only on the token and the
\* current time: no request (logout, rotation, refresh, verify, redemption,
\* by any caller) changes what the server's checks say of an issued token,
\* only the clock does, by expiry; and every request is answered by these
\* checks, so a refresh token rotates again after it has been used to rotate.
C35_AcceptanceIsStateless ==
    [][NoRevocation /\ AnsweredByTheChecks']_vars

\* C35 witness: a refresh token rotated although a session token minted
\* after the server started had already been issued for its subject
C35_Witness ==
    /\ last.op \in {"rotate", "refresh"}
    /\ last.status = 200
    /\ \E s \in issued \ (LegacyTokens \cup Delivered(last)) :
          /\ s.aud = "SESSION"
          /\ s.userId = (IF IsPage THEN last.req.refresh ELSE RefreshPresented).userId

\* a route that answers with tokens has answered 200
TokensAnswered ==
    /\ \/ IsRoute("anonymous")
       \/ IsRoute("verify")
       \/ IsRoute("refresh")
    /\ last.status = 200

\* the subject the answer is for
AnsweredSubject == last.body.sessionToken.userId

FailsVerification(token, aud) == token.kind # "none" /\ ~Verifies(token, aud)

\* what the caller sees of an outcome
Response(out) ==
    [status |-> out.status, body |-> out.body, cookies |-> out.cookies,
     location |-> out.location]

\* the request being answered with a string that is no JWT in the place of
\* the token /auth/refresh or /auth/web-code looks at
WithMalformedToken ==
    IF last.req.auth.scheme = "bearer" THEN [last.req EXCEPT !.auth = Bearer(Garbage)]
    ELSE [last.req EXCEPT !.refresh = Garbage]

\* C37: there is one Invalid outcome: /auth/refresh and /auth/web-code answer
\* a token that fails verification (malformed, badly signed, expired or of
\* the wrong audience) exactly as they answer a string that is no JWT, and
\* the cookie resolution treats a session and a refresh cookie that both
\* fail, in whatever way, as it treats two such strings.
C37_OneInvalidOutcome ==
    /\ (IsRoute("refresh") /\ FailsVerification(RefreshPresented, "REFRESH")) =>
          Response(last) = Response(routeRefresh(WithMalformedToken).out)
    /\ (IsRoute("web-code") /\ last.req.auth.scheme = "bearer"
          /\ FailsVerification(last.req.auth.token, "SESSION")) =>
          Response(last) = Response(routeWebCode(WithMalformedToken).out)
    /\ (IsPage /\ ~codeAccepted(last.req)
          /\ FailsVerification(last.req.session, "SESSION")
          /\ FailsVerification(last.req.refresh, "REFRESH")) =>
          /\ last.op = "bootstrap"
          /\ BootstrapOutcome

\* C38: the sessionId withAuth passes to the wrapped handler is the
\* sessionId claim of the sessionToken it passes in the same call, whether
\* the session cookie was valid, the pair was rotated or an anonymous subject
\* was bootstrapped.
C38_HandlerSessionIdIsTheTokens ==
    (IsPage /\ HandlerRan) =>
        last.handler[1].sessionId = last.handler[1].sessionToken.sessionId

\* C39: when requestCode or refresh succeeds against the answers of this
\* repository's server ({success, message, expiresIn} for request-code,
\* {success, sessionToken, refreshToken} for refresh), state.userId is what
\* it was and state.sessionToken is a token, so that a verifyEmail that
\* follows is not refused with "No user ID available".
C39_SuccessKeepsTheIdentity ==
    [][\A p \in Procs :
          (Ends(p) /\ ~Failed(p) /\ client.proc[p].op \in {"requestCode", "refresh"}) =>
              /\ client'.state.userId = client.state.userId
              /\ ~FalsyId(client'.state.userId)
              /\ client'.state.sessionToken.kind \in {"jwt", "garbage"}]_vars

\* the emails of the session tokens issued for the subject before the
\* request being answered
VerifiedEmails(userId) ==
    {t.email : t \in {s \in issued \ Delivered(last) :
                          s.aud = "SESSION" /\ s.userId = userId}} \ {NoEmail}

\* the cookie resolution rotated, or /auth/refresh answered 200
SessionRenewed ==
    \/ IsPage /\ last.op = "rotate" /\ last.status = 200
    \/ IsRoute("refresh") /\ last.status = 200

\* C40: once a session token with an email has been issued for a subject,
\* every session token minted for the subject by a rotation of the cookie
\* resolution or by /auth/refresh carries that email, with or without the
\* optional getUserEmail hook: a verified session never becomes an
\* anonymous one.
C40_RenewalKeepsTheEmail ==
    SessionRenewed =>
        \A i \in DOMAIN last.minted :
            last.minted[i].aud = "SESSION" =>
                \A email \in VerifiedEmails(last.minted[i].userId) :
                    last.minted[i].email = email

====
